---- MODULE Spec2Model ----
(***************************************************************************)
(* A model of objection, a self-hosted object storage server:              *)
(*   - configuration validation (src/config.rs and src/main.rs:            *)
(*     validate_file), checked under Spec;                                 *)
(*   - the buckets table, Bucket::new / find_all / delete and the HTTP     *)
(*     router (src/models/bucket.rs, src/routes, src/lib.rs), checked      *)
(*     under SpecServer;                                                   *)
(*   - the same server answering concurrent requests under the policy      *)
(*     sections of Config, checked under SpecConcurrent;                   *)
(*   - the same server on an existing database file, checked under         *)
(*     SpecExisting.                                                       *)
(***************************************************************************)
EXTENDS Integers, Sequences, FiniteSets, TLC

VARIABLES
    impl,       \* which validate_file runs: "config" (config.rs) or "main" (main.rs)
    file,       \* the deserialized ConfigFile handed to validate_file
    result,     \* how validate_file ended: a Config, a clap error exit, or a panic
    config,     \* the Config create_server was given (SpecServer)
    buckets,    \* the rows of the buckets table, in rowid order
    issued,     \* the UUIDs Uuid::new_v4 has returned so far
    deleted,    \* the names of the buckets Bucket::delete was called on
    last,       \* the last catalog call and what it returned
    response,   \* the last HTTP request and the response it got
    inflight,   \* the requests accepted and not yet answered, each on its own task
    answered    \* the requests answered so far with their responses, in that order

vars ==
    <<impl, file, result, config, buckets, issued, deleted, last, response,
      inflight, answered>>

(***************************************************************************)
(* Option<T>: None is the empty sequence, Some(v) the one-element sequence *)
(***************************************************************************)
None == << >>
Some(v) == <<v>>
IsSome(o) == Len(o) = 1
IsNone(o) == Len(o) = 0
Unwrap(o) == o[1]
OptionOf(S) == {None} \cup {Some(v) : v \in S}

(***************************************************************************)
(* Bounds                                                                  *)
(***************************************************************************)
\* how many top-level keys (data-directory and the eight sections) a
\* configuration file sets at once
MaxKeys == 2
\* how many times Bucket::new is called
MaxNew == 2

(***************************************************************************)
(* Program constants                                                       *)
(***************************************************************************)
DefaultPort == 2048
DefaultMaxAge == 3600

(***************************************************************************)
(* The strings a configuration file may hold                               *)
(***************************************************************************)
\* tls-versions entries: one a TlsVersion, one not
VersionStrings == {"1.2", "1.4"}
\* allow-origins entries: an absolute URL (with a path), and a relative one
OriginStrings == {"https://a.example/x", "a.example"}
\* allow-methods entries: a token, and a string with a space in it
MethodStrings == {"GET", "GE T"}
\* allow-headers entries: a header name in mixed case, and one with a space
HeaderStrings == {"Content-Type", "bad header"}
HostValues == {"127.0.0.1"}
PortValues == {8080}
KeyStrings == {"PEM"}
KeyPaths == {"/etc/k.pem"}
DataDirs == {"/var/objection"}
CidrStrings == {"10.0.0.0/8"}
MimeStrings == {"text/plain"}

\* BTreeSet<String> iterates in the order of the strings
StrOrder ==
    <<"1.2", "1.4", "Content-Type", "GE T", "GET", "a.example",
      "bad header", "https://a.example/x">>

Rank(s) == CHOOSE i \in 1..Len(StrOrder) : StrOrder[i] = s

\* the first element, in BTreeSet order, of a non-empty set of strings
First(S) == CHOOSE s \in S : \A t \in S : Rank(s) <= Rank(t)

(***************************************************************************)
(* Parsers.  Each returns Some(value) or None (the Err case).              *)
(***************************************************************************)
\* strum::EnumString on TlsVersion
ParseTlsVersion(s) ==
    CASE s = "1.1" -> Some("V1_1")
      [] s = "1.2" -> Some("V1_2")
      [] s = "1.3" -> Some("V1_3")
      [] OTHER -> None

AllTlsVersions == {"V1_1", "V1_2", "V1_3"}

\* o.parse::<Url>() followed by .origin(): scheme, host and port only
ParseOrigin(s) ==
    CASE s = "https://a.example/x" -> Some(<<"https", "a.example", 443>>)
      [] OTHER -> None

\* Method::from_str: any token is a method
ParseMethod(s) ==
    CASE s = "GET" -> Some("GET")
      [] OTHER -> None

\* HeaderName::from_str: a token, lower-cased
ParseHeader(s) ==
    CASE s = "Content-Type" -> Some("content-type")
      [] OTHER -> None

(***************************************************************************)
(* The partial configuration (ConfigFile and the Partial*Config structs)   *)
(***************************************************************************)
PartialHttpConfig == [host : OptionOf(HostValues), port : OptionOf(PortValues)]

PartialTlsConfig ==
    [tls_versions : OptionOf(SUBSET VersionStrings),
     private_key : OptionOf(KeyStrings),
     public_key : OptionOf(KeyStrings),
     private_key_file : OptionOf(KeyPaths),
     public_key_file : OptionOf(KeyPaths)]

PartialCorsConfig ==
    [allow_origins : OptionOf(SUBSET OriginStrings),
     allow_methods : OptionOf(SUBSET MethodStrings),
     allow_headers : OptionOf(SUBSET HeaderStrings),
     allow_credentials : OptionOf({TRUE})]

PartialCacheControlConfig ==
    [default_policy : OptionOf({"cache"}), default_max_age : {None}]

PartialAccessControlConfig ==
    [enable_access_tokens : OptionOf({FALSE}),
     enable_local_host_auth_bypass : {None}]

PartialIpFilterConfig ==
    [whitelist : OptionOf({CidrStrings}), blacklist : OptionOf({CidrStrings})]

PartialContentTypesConfig ==
    [whitelist : OptionOf({MimeStrings}), blacklist : OptionOf({MimeStrings})]

PartialRateLimitingConfig ==
    [default_period : {None}, default_burst_size : OptionOf({3})]

KeyNames ==
    {"data_directory", "http", "tls", "cors", "cache_control", "access_control",
     "ip_filter", "content_types", "rate_limiting"}

\* the values of a top-level key that is set (K) or not set
Key(P, name, K) == IF name \in P THEN {Some(v) : v \in K} ELSE {None}

\* the configuration files that set exactly the keys P
ConfigFilesSetting(P) ==
    [data_directory : Key(P, "data_directory", DataDirs),
     http : Key(P, "http", PartialHttpConfig),
     tls : Key(P, "tls", PartialTlsConfig),
     cors : Key(P, "cors", PartialCorsConfig),
     cache_control : Key(P, "cache_control", PartialCacheControlConfig),
     access_control : Key(P, "access_control", PartialAccessControlConfig),
     ip_filter : Key(P, "ip_filter", PartialIpFilterConfig),
     content_types : Key(P, "content_types", PartialContentTypesConfig),
     rate_limiting : Key(P, "rate_limiting", PartialRateLimitingConfig)]

KeySets == {P \in SUBSET KeyNames : Cardinality(P) <= MaxKeys}

(***************************************************************************)
(* The validated configuration (Config and its parts) and their defaults   *)
(***************************************************************************)
HttpConfig_default == [host |-> "0.0.0.0", port |-> DefaultPort]

CacheControlConfig_default ==
    [default_policy |-> "no-cache", default_max_age |-> DefaultMaxAge]

AccessControlConfig_default ==
    [enable_access_tokens |-> TRUE, enable_local_host_auth_bypass |-> FALSE]

\* #[derive(Default)] on Config (config.rs has no data_directory field)
Config_default ==
    [data_directory |-> None,
     http |-> HttpConfig_default,
     tls |-> None,
     cors |-> None,
     cache_control |-> CacheControlConfig_default,
     access_control |-> AccessControlConfig_default,
     ip_filter |-> None,
     content_types |-> None,
     rate_limiting |-> None]

(***************************************************************************)
(* How validate_file ends                                                  *)
(***************************************************************************)
\* the Config is returned
Valid(c) ==
    [kind |-> "Config", error |-> "", field |-> "", value |-> "",
     config |-> Some(c)]

\* cmd.error(ErrorKind::ValueValidation, ...).exit(): the diagnostic is
\* printed and the process exits with clap's usage-error status
Exit(error, field, value) ==
    [kind |-> "Exit", error |-> error, field |-> field, value |-> value,
     config |-> None]

\* todo!() and expect(): the thread panics
Panic(message, field) ==
    [kind |-> "Panic", error |-> message, field |-> field, value |-> "",
     config |-> None]

NotRun ==
    [kind |-> "NotRun", error |-> "", field |-> "", value |-> "",
     config |-> None]

(***************************************************************************)
(* validate_file, stage by stage, in the order the code evaluates them     *)
(***************************************************************************)
\* the strings of S that the parser rejects, and the values of the others
Rejected(S, Parse(_)) == {s \in S : IsNone(Parse(s))}
Parsed(S, Parse(_)) == {Unwrap(Parse(s)) : s \in {t \in S : IsSome(Parse(t))}}

\* validate_http with the port taken by unwrap_or_default(): a missing port
\* becomes u16's default instead of HttpConfig::default().port
validate_http_port_zero(http) ==
    IF IsSome(http)
    THEN [host |-> IF IsSome(Unwrap(http).host)
                   THEN Unwrap(Unwrap(http).host)
                   ELSE HttpConfig_default.host,
          port |-> IF IsSome(Unwrap(http).port)
                   THEN Unwrap(Unwrap(http).port)
                   ELSE 0]
    ELSE HttpConfig_default

\* file.http.map(|http| HttpConfig {..unwrap_or_else(default)..}).unwrap_or_default()
validate_http(http) ==
    IF IsSome(http)
    THEN [host |-> IF IsSome(Unwrap(http).host)
                   THEN Unwrap(Unwrap(http).host)
                   ELSE HttpConfig_default.host,
          port |-> IF IsSome(Unwrap(http).port)
                   THEN Unwrap(Unwrap(http).port)
                   ELSE HttpConfig_default.port]
    ELSE HttpConfig_default

\* match tls.tls_versions: every string is parsed, the first that is no
\* TlsVersion exits; None gives all three versions
tls_versions(tls) ==
    IF IsSome(tls.tls_versions)
    THEN [bad |-> Rejected(Unwrap(tls.tls_versions), ParseTlsVersion),
          val |-> Parsed(Unwrap(tls.tls_versions), ParseTlsVersion)]
    ELSE [bad |-> {}, val |-> AllTlsVersions]

\* tls_keys with the inline arm written (Some, Some, _, _): an inline pair is
\* taken whatever the file fields hold
tls_keys_inline_wildcard(tls) ==
    CASE /\ IsSome(tls.private_key) /\ IsSome(tls.public_key)
            -> Some([mode |-> "String",
                     private |-> Unwrap(tls.private_key),
                     public |-> Unwrap(tls.public_key)])
      [] /\ IsNone(tls.private_key) /\ IsNone(tls.public_key)
         /\ IsSome(tls.private_key_file) /\ IsSome(tls.public_key_file)
            -> Some([mode |-> "File",
                     private |-> Unwrap(tls.private_key_file),
                     public |-> Unwrap(tls.public_key_file)])
      [] OTHER -> None

\* match (private_key, public_key, private_key_file, public_key_file):
\* Some(keys) for the two accepted arms, None for the `_` arm
tls_keys(tls) ==
    CASE /\ IsNone(tls.private_key) /\ IsNone(tls.public_key)
         /\ IsSome(tls.private_key_file) /\ IsSome(tls.public_key_file)
            -> Some([mode |-> "File",
                     private |-> Unwrap(tls.private_key_file),
                     public |-> Unwrap(tls.public_key_file)])
      [] /\ IsSome(tls.private_key) /\ IsSome(tls.public_key)
         /\ IsNone(tls.private_key_file) /\ IsNone(tls.public_key_file)
            -> Some([mode |-> "String",
                     private |-> Unwrap(tls.private_key),
                     public |-> Unwrap(tls.public_key)])
      [] OTHER -> None

\* allow_origins with filter_map(|o| o.parse().ok()): an origin that does
\* not parse is dropped instead of ending validation
allow_origins_filter_map(cors) ==
    IF IsSome(cors.allow_origins)
    THEN [bad |-> {},
          val |-> Parsed(Unwrap(cors.allow_origins), ParseOrigin)]
    ELSE [bad |-> {}, val |-> {}]

\* cors.allow_origins.map(parse each or exit).unwrap_or_default()
allow_origins(cors) ==
    IF IsSome(cors.allow_origins)
    THEN [bad |-> Rejected(Unwrap(cors.allow_origins), ParseOrigin),
          val |-> Parsed(Unwrap(cors.allow_origins), ParseOrigin)]
    ELSE [bad |-> {}, val |-> {}]

allow_methods(cors) ==
    IF IsSome(cors.allow_methods)
    THEN [bad |-> Rejected(Unwrap(cors.allow_methods), ParseMethod),
          val |-> Parsed(Unwrap(cors.allow_methods), ParseMethod)]
    ELSE [bad |-> {}, val |-> {}]

allow_headers(cors) ==
    IF IsSome(cors.allow_headers)
    THEN [bad |-> Rejected(Unwrap(cors.allow_headers), ParseHeader),
          val |-> Parsed(Unwrap(cors.allow_headers), ParseHeader)]
    ELSE [bad |-> {}, val |-> {}]

\* cors.allow_credentials.unwrap_or_default()
allow_credentials(cors) ==
    IF IsSome(cors.allow_credentials) THEN Unwrap(cors.allow_credentials) ELSE FALSE

\* file.<section>.map(|_| todo!(..)).unwrap_or_default() for the five
\* sections whose validation is not written: Some(panic message) when the
\* section is present, None when it is absent (the default is then taken)
validate_cache_control(section) ==
    IF IsSome(section)
    THEN Some("not yet implemented: Validate cache control config") ELSE None

validate_access_control(section) ==
    IF IsSome(section)
    THEN Some("not yet implemented: Validate access control config") ELSE None

\* validate_ip_filter written as "whitelist if set, else blacklist": a
\* section that sets both lists is accepted
validate_ip_filter_prefer_whitelist(section) ==
    IF IsSome(section)
    THEN [panic |-> None,
          val |-> IF IsSome(Unwrap(section).whitelist)
                  THEN Some([mode |-> "Whitelist",
                             set |-> Unwrap(Unwrap(section).whitelist)])
                  ELSE IF IsSome(Unwrap(section).blacklist)
                  THEN Some([mode |-> "Blacklist",
                             set |-> Unwrap(Unwrap(section).blacklist)])
                  ELSE None]
    ELSE [panic |-> None, val |-> None]

validate_ip_filter(section) ==
    IF IsSome(section)
    THEN [panic |-> Some("not yet implemented: Validate ip filter config"),
          val |-> None]
    ELSE [panic |-> None, val |-> None]

validate_content_types(section) ==
    IF IsSome(section)
    THEN [panic |-> Some("not yet implemented: Validate content type filter config"),
          val |-> None]
    ELSE [panic |-> None, val |-> None]

validate_rate_limiting(section) ==
    IF IsSome(section)
    THEN Some("not yet implemented: Validate rate limiting config") ELSE None

\* main.rs only: file.data_directory.expect("missing data directory")
data_directory(i, f) ==
    IF i = "main"
    THEN [panic |-> IF IsNone(f.data_directory)
                    THEN Some("missing data directory") ELSE None,
          val |-> f.data_directory]
    ELSE [panic |-> None, val |-> None]

\* the struct literal that ends validate_file
BuildConfig(i, f) ==
    [data_directory |-> data_directory(i, f).val,
     http |-> validate_http(f.http),
     tls |-> IF IsSome(f.tls)
             THEN Some([tls_versions |-> tls_versions(Unwrap(f.tls)).val,
                        keys |-> Unwrap(tls_keys(Unwrap(f.tls)))])
             ELSE None,
     cors |-> IF IsSome(f.cors)
              THEN Some([allow_origins |-> allow_origins(Unwrap(f.cors)).val,
                         allow_methods |-> allow_methods(Unwrap(f.cors)).val,
                         allow_headers |-> allow_headers(Unwrap(f.cors)).val,
                         allow_credentials |-> allow_credentials(Unwrap(f.cors))])
              ELSE None,
     cache_control |-> CacheControlConfig_default,
     access_control |-> AccessControlConfig_default,
     ip_filter |-> validate_ip_filter(f.ip_filter).val,
     content_types |-> validate_content_types(f.content_types).val,
     rate_limiting |-> None]

\* validate_file(file): the first stage that fails ends the function
validate_file(i, f) ==
    IF IsSome(data_directory(i, f).panic)
    THEN Panic(Unwrap(data_directory(i, f).panic), "data-directory")
    ELSE IF IsSome(f.tls) /\ tls_versions(Unwrap(f.tls)).bad # {}
    THEN Exit("InvalidTlsVersion", "tls.tls-versions",
              First(tls_versions(Unwrap(f.tls)).bad))
    ELSE IF IsSome(f.tls) /\ IsNone(tls_keys(Unwrap(f.tls)))
    THEN Exit("InvalidTlsKeys", "tls", "")
    ELSE IF IsSome(f.cors) /\ allow_origins(Unwrap(f.cors)).bad # {}
    THEN Exit("InvalidCorsOrigin", "cors.allow-origins",
              First(allow_origins(Unwrap(f.cors)).bad))
    ELSE IF IsSome(f.cors) /\ allow_methods(Unwrap(f.cors)).bad # {}
    THEN Exit("InvalidCorsMethod", "cors.allow-methods",
              First(allow_methods(Unwrap(f.cors)).bad))
    ELSE IF IsSome(f.cors) /\ allow_headers(Unwrap(f.cors)).bad # {}
    THEN Exit("InvalidCorsHeader", "cors.allow-headers",
              First(allow_headers(Unwrap(f.cors)).bad))
    ELSE IF IsSome(validate_cache_control(f.cache_control))
    THEN Panic(Unwrap(validate_cache_control(f.cache_control)), "cache-control")
    ELSE IF IsSome(validate_access_control(f.access_control))
    THEN Panic(Unwrap(validate_access_control(f.access_control)), "access-control")
    ELSE IF IsSome(validate_ip_filter(f.ip_filter).panic)
    THEN Panic(Unwrap(validate_ip_filter(f.ip_filter).panic), "ip-filter")
    ELSE IF IsSome(validate_content_types(f.content_types).panic)
    THEN Panic(Unwrap(validate_content_types(f.content_types).panic), "content-types")
    ELSE IF IsSome(validate_rate_limiting(f.rate_limiting))
    THEN Panic(Unwrap(validate_rate_limiting(f.rate_limiting)), "rate-limiting")
    ELSE Valid(BuildConfig(i, f))

(***************************************************************************)
(* Spec: a configuration file is read and validated                        *)
(***************************************************************************)
NoRequest ==
    [method |-> "", path |-> << >>, peer |-> "", token |-> None, handler |-> "",
     status |-> 0, panic |-> "", body |-> << >>]

NoCall ==
    [op |-> "", name |-> "", settings |-> None, ok |-> TRUE, panic |-> "",
     bucket |-> None]

Init ==
    /\ impl \in {"config", "main"}
    /\ \E P \in KeySets : file \in ConfigFilesSetting(P)
    /\ result = NotRun
    /\ config = Config_default
    /\ buckets = << >>
    /\ issued = {}
    /\ deleted = {}
    /\ last = NoCall
    /\ response = NoRequest
    /\ inflight = << >>
    /\ answered = << >>

\* parse_and_validate, from the parsed file on: Self::validate_file(file)
ParseAndValidate ==
    /\ result.kind = "NotRun"
    /\ result' = validate_file(impl, file)
    /\ UNCHANGED <<impl, file, config, buckets, issued, deleted, last, response,
                   inflight, answered>>

Next == ParseAndValidate

Spec == Init /\ [][Next]_vars

(***************************************************************************)
(* Properties of configuration validation (checked under Spec)             *)
(***************************************************************************)
Done == result.kind # "NotRun"
Produced == result.kind = "Config"
cfg == Unwrap(result.config)

\* the two complete pairs of key material, as the specification words them
InlinePair(t) ==
    /\ IsSome(t.private_key) /\ IsSome(t.public_key)
    /\ IsNone(t.private_key_file) /\ IsNone(t.public_key_file)

FilePair(t) ==
    /\ IsSome(t.private_key_file) /\ IsSome(t.public_key_file)
    /\ IsNone(t.private_key) /\ IsNone(t.public_key)

CompletePair(t) == InlinePair(t) \/ FilePair(t)

\* validation gets as far as the match on the key fields: no earlier
\* statement of validate_file has ended it
ReachesKeyCheck ==
    /\ impl = "main" => IsSome(file.data_directory)
    /\ IsSome(Unwrap(file.tls).tls_versions) =>
           Unwrap(Unwrap(file.tls).tls_versions) \subseteq {"1.1", "1.2", "1.3"}

\* C1, as stated: with a tls section, validation succeeds if and only if
\* the key material is exactly one complete pair, and each of the other 14
\* combinations fails with InvalidTlsKeys; without a tls section validation
\* does not fail on keys and the result has no TLS configuration.
C1_SucceedsIffCompletePair ==
    Done =>
        /\ IsSome(file.tls) =>
               /\ Produced <=> CompletePair(Unwrap(file.tls))
               /\ ~CompletePair(Unwrap(file.tls)) => result.error = "InvalidTlsKeys"
        /\ IsNone(file.tls) =>
               /\ result.error # "InvalidTlsKeys"
               /\ Produced => IsNone(cfg.tls)

\* C1, amended: with a tls section, a Config is produced only from exactly
\* one complete pair and carries that pair in the matching mode; a complete
\* pair never fails with InvalidTlsKeys; each of the other 14 combinations
\* never produces a Config and fails with InvalidTlsKeys whenever validation
\* reaches the key check.  Without a tls section validation does not fail
\* on keys and a produced Config has no TLS configuration.
C1_KeyMaterial ==
    Done =>
        /\ IsSome(file.tls) =>
               /\ Produced =>
                      /\ CompletePair(Unwrap(file.tls))
                      /\ IsSome(cfg.tls)
                      /\ InlinePair(Unwrap(file.tls)) =>
                             Unwrap(cfg.tls).keys =
                                 [mode |-> "String",
                                  private |-> Unwrap(Unwrap(file.tls).private_key),
                                  public |-> Unwrap(Unwrap(file.tls).public_key)]
                      /\ FilePair(Unwrap(file.tls)) =>
                             Unwrap(cfg.tls).keys =
                                 [mode |-> "File",
                                  private |-> Unwrap(Unwrap(file.tls).private_key_file),
                                  public |-> Unwrap(Unwrap(file.tls).public_key_file)]
               /\ CompletePair(Unwrap(file.tls)) => result.error # "InvalidTlsKeys"
               /\ ~CompletePair(Unwrap(file.tls)) =>
                      /\ ~Produced
                      /\ ReachesKeyCheck =>
                             /\ result.kind = "Exit"
                             /\ result.error = "InvalidTlsKeys"
        /\ IsNone(file.tls) =>
               /\ result.error # "InvalidTlsKeys"
               /\ Produced => IsNone(cfg.tls)

\* C1 witness: a tls section mixing an inline private key with a public key
\* file has been rejected with InvalidTlsKeys
C1_Witness ==
    /\ Done
    /\ IsSome(file.tls)
    /\ IsSome(Unwrap(file.tls).private_key)
    /\ IsNone(Unwrap(file.tls).public_key)
    /\ IsNone(Unwrap(file.tls).private_key_file)
    /\ IsSome(Unwrap(file.tls).public_key_file)
    /\ result.kind = "Exit"
    /\ result.error = "InvalidTlsKeys"

\* C2: validation of every partial configuration, the five remaining
\* sections included, ends either in a Config that carries the supplied
\* values or in a configuration error that names the offending field; it
\* never aborts in another way.
C2_ConfigOrConfigError ==
    Done =>
        /\ result.kind \in {"Config", "Exit"}
        /\ result.kind = "Exit" => result.field # ""
        /\ Produced /\ IsSome(file.cache_control)
               /\ IsSome(Unwrap(file.cache_control).default_policy) =>
               cfg.cache_control.default_policy =
                   Unwrap(Unwrap(file.cache_control).default_policy)
        /\ Produced /\ IsSome(file.rate_limiting) => IsSome(cfg.rate_limiting)
        /\ Produced /\ IsSome(file.ip_filter) => IsSome(cfg.ip_filter)
        /\ Produced /\ IsSome(file.content_types) => IsSome(cfg.content_types)

\* some element of a list-valued field of the file does not parse
SomeElementFails ==
    \/ /\ IsSome(file.tls)
       /\ IsSome(Unwrap(file.tls).tls_versions)
       /\ \E s \in Unwrap(Unwrap(file.tls).tls_versions) : IsNone(ParseTlsVersion(s))
    \/ /\ IsSome(file.cors)
       /\ \/ /\ IsSome(Unwrap(file.cors).allow_origins)
             /\ \E s \in Unwrap(Unwrap(file.cors).allow_origins) : IsNone(ParseOrigin(s))
          \/ /\ IsSome(Unwrap(file.cors).allow_methods)
             /\ \E s \in Unwrap(Unwrap(file.cors).allow_methods) : IsNone(ParseMethod(s))
          \/ /\ IsSome(Unwrap(file.cors).allow_headers)
             /\ \E s \in Unwrap(Unwrap(file.cors).allow_headers) : IsNone(ParseHeader(s))

\* C3: if any element of a list-valued field (TLS version, CORS origin,
\* method or header) fails to parse, no Config is produced.
C3_BadElementFailsAll == Done /\ SomeElementFails => ~Produced

\* C3 witness: allow-origins held a well-formed and a malformed origin, and
\* validation ended with the error for the malformed one
C3_Witness ==
    /\ Done
    /\ IsSome(file.cors)
    /\ Unwrap(file.cors).allow_origins = Some({"https://a.example/x", "a.example"})
    /\ result = Exit("InvalidCorsOrigin", "cors.allow-origins", "a.example")

\* C4: every produced Config with a TLS configuration enables a non-empty
\* set of versions, all among 1.1, 1.2 and 1.3, also when tls-versions is
\* given as an empty list.
C4_TlsVersionsNonEmpty ==
    Produced /\ IsSome(cfg.tls) =>
        /\ Unwrap(cfg.tls).tls_versions # {}
        /\ Unwrap(cfg.tls).tls_versions \subseteq {"V1_1", "V1_2", "V1_3"}

\* C5: every field absent from the file has its built-in default in the
\* produced Config, whatever the other fields are.
C5_AbsentFieldsDefault ==
    Produced =>
        /\ IsNone(file.http) => cfg.http = [host |-> "0.0.0.0", port |-> 2048]
        /\ IsSome(file.http) =>
               /\ cfg.http.host = IF IsSome(Unwrap(file.http).host)
                                  THEN Unwrap(Unwrap(file.http).host) ELSE "0.0.0.0"
               /\ cfg.http.port = IF IsSome(Unwrap(file.http).port)
                                  THEN Unwrap(Unwrap(file.http).port) ELSE 2048
        /\ IsNone(file.tls) <=> IsNone(cfg.tls)
        /\ IsSome(file.tls) /\ IsNone(Unwrap(file.tls).tls_versions) =>
               Unwrap(cfg.tls).tls_versions = {"V1_1", "V1_2", "V1_3"}
        /\ IsNone(file.cors) <=> IsNone(cfg.cors)
        /\ IsSome(file.cors) =>
               /\ IsNone(Unwrap(file.cors).allow_origins) =>
                      Unwrap(cfg.cors).allow_origins = {}
               /\ IsNone(Unwrap(file.cors).allow_methods) =>
                      Unwrap(cfg.cors).allow_methods = {}
               /\ IsNone(Unwrap(file.cors).allow_headers) =>
                      Unwrap(cfg.cors).allow_headers = {}
               /\ IsNone(Unwrap(file.cors).allow_credentials) =>
                      Unwrap(cfg.cors).allow_credentials = FALSE
        /\ IsNone(file.cache_control) =>
               cfg.cache_control = [default_policy |-> "no-cache",
                                    default_max_age |-> 3600]
        /\ IsNone(file.access_control) =>
               cfg.access_control = [enable_access_tokens |-> TRUE,
                                     enable_local_host_auth_bypass |-> FALSE]
        /\ IsNone(file.ip_filter) => IsNone(cfg.ip_filter)
        /\ IsNone(file.content_types) => IsNone(cfg.content_types)
        /\ IsNone(file.rate_limiting) => IsNone(cfg.rate_limiting)

\* C5 witness: an http section that sets only the host was validated beside
\* a cors section that sets nothing; the port and the CORS lists are defaults
C5_Witness ==
    /\ Produced
    /\ IsSome(file.http)
    /\ IsSome(Unwrap(file.http).host)
    /\ IsNone(Unwrap(file.http).port)
    /\ cfg.http = [host |-> "127.0.0.1", port |-> 2048]
    /\ IsSome(file.cors)
    /\ IsNone(Unwrap(file.cors).allow_origins)
    /\ Unwrap(cfg.cors).allow_origins = {}

\* a section sets both its whitelist and its blacklist
SetsBoth(section) ==
    /\ IsSome(section)
    /\ IsSome(Unwrap(section).whitelist)
    /\ IsSome(Unwrap(section).blacklist)

\* an Option<IpFilterConfig> or Option<ContentTypesConfig>: absent, or one
\* of the two variants
OneMode(filter) == IsSome(filter) => Unwrap(filter).mode \in {"Whitelist", "Blacklist"}

\* C6: in every produced Config ip_filter and content_types are each absent,
\* an allow-list or a deny-list; a file that sets both whitelist and
\* blacklist of the same section does not validate into a Config.
C6_AllowXorDeny ==
    /\ Produced => OneMode(cfg.ip_filter) /\ OneMode(cfg.content_types)
    /\ Done /\ (SetsBoth(file.ip_filter) \/ SetsBoth(file.content_types)) => ~Produced

\* C6 witness: an ip-filter section with both lists was validated, and
\* validation ended without a Config
C6_Witness ==
    /\ Done
    /\ SetsBoth(file.ip_filter)
    /\ ~Produced

(***************************************************************************)
(* The buckets table and the Bucket model (src/models)                     *)
(***************************************************************************)
BucketNames == {"a", "b"}

\* BucketSettings; CachePolicy is Cache or NoCache
BucketSettings ==
    [default_cache_policy : OptionOf({"Cache", "NoCache"}), access_logging : BOOLEAN]

\* the Uuid values, and the hyphenated text Uuid::to_string gives each
UuidText ==
    <<"1b4e28ba-2fa1-41d2-883f-0016d3cca427",
      "6fa459ea-ee8a-4ca4-894e-db77e160355e",
      "886313e1-3b8a-4372-9b90-0c9aee199e5d",
      "a8098c1a-f86e-41da-a4f7-6bd9a2c3d4e5",
      "c9bf9e57-1685-4c89-bafb-ff5af830be8a">>

Uuids == 1..MaxNew

Uuid_to_string(u) == UuidText[u]

\* str::parse::<Uuid>()
Uuid_parse(s) ==
    IF \E u \in 1..Len(UuidText) : UuidText[u] = s
    THEN Some(CHOOSE u \in 1..Len(UuidText) : UuidText[u] = s)
    ELSE None

\* strum::Display and strum::EnumString with serialize_all = "kebab-case"
CachePolicy_to_string(cp) == IF cp = "Cache" THEN "cache" ELSE "no-cache"

CachePolicy_parse(s) ==
    CASE s = "cache" -> Some("Cache")
      [] s = "no-cache" -> Some("NoCache")
      [] OTHER -> None

\* the four columns with the cache policy written as its variant name
\* (Debug, or Display without serialize_all = "kebab-case")
RowOf_variant_name(bucket) ==
    [uuid |-> Uuid_to_string(bucket.uuid),
     name |-> bucket.name,
     settings_default_cache_policy |-> bucket.settings.default_cache_policy,
     settings_access_logging |-> IF bucket.settings.access_logging THEN 1 ELSE 0]

\* the values Bucket::new binds to the four columns
RowOf(bucket) ==
    [uuid |-> Uuid_to_string(bucket.uuid),
     name |-> bucket.name,
     settings_default_cache_policy |->
         IF IsSome(bucket.settings.default_cache_policy)
         THEN Some(CachePolicy_to_string(Unwrap(bucket.settings.default_cache_policy)))
         ELSE None,
     settings_access_logging |-> IF bucket.settings.access_logging THEN 1 ELSE 0]

\* INSERT INTO buckets without the UNIQUE constraint on name
insert_without_unique_name(rows, row) ==
    IF \E i \in 1..Len(rows) : rows[i].uuid = row.uuid
    THEN [ok |-> FALSE, rows |-> rows]
    ELSE [ok |-> TRUE, rows |-> Append(rows, row)]

\* INSERT INTO buckets VALUES (?, ?, ?, ?) under the constraints of
\* create_table: uuid PRIMARY KEY UNIQUE, name UNIQUE.  A violated
\* constraint fails the statement and leaves the table as it was.
insert(rows, row) ==
    IF \E i \in 1..Len(rows) : rows[i].uuid = row.uuid \/ rows[i].name = row.name
    THEN [ok |-> FALSE, rows |-> rows]
    ELSE [ok |-> TRUE, rows |-> Append(rows, row)]

\* impl From<Row> for Bucket: expect() panics on a uuid or a cache policy
\* that does not parse
FromRow(row) ==
    IF \/ IsNone(Uuid_parse(row.uuid))
       \/ /\ IsSome(row.settings_default_cache_policy)
          /\ IsNone(CachePolicy_parse(Unwrap(row.settings_default_cache_policy)))
    THEN None
    ELSE Some([uuid |-> Unwrap(Uuid_parse(row.uuid)),
               name |-> row.name,
               settings |->
                   [default_cache_policy |->
                        IF IsSome(row.settings_default_cache_policy)
                        THEN CachePolicy_parse(Unwrap(row.settings_default_cache_policy))
                        ELSE None,
                    access_logging |-> row.settings_access_logging = 1]])

\* Bucket::find_all: SELECT * FROM buckets, each row mapped with From<Row>;
\* None when a row makes the mapping panic
find_all(rows) ==
    IF \E i \in 1..Len(rows) : IsNone(FromRow(rows[i]))
    THEN None
    ELSE Some([i \in 1..Len(rows) |-> Unwrap(FromRow(rows[i]))])

\* no call and no request is being answered: calls and requests are taken
\* one at a time, each an atomic step
Idle == last = NoCall /\ response = NoRequest

\* Bucket::new(db, name, settings): a bucket with a new v4 UUID is built
\* and inserted; the statement's error is returned with `?`.  Uuid::new_v4
\* draws 122 random bits: it is modelled as never repeating a value.
BucketNew(name, settings) ==
    /\ Idle
    /\ Cardinality(issued) < MaxNew
    /\ \E u \in Uuids \ issued :
           LET bucket == [uuid |-> u, name |-> name, settings |-> settings]
               done == insert(buckets, RowOf(bucket))
           IN /\ issued' = issued \cup {u}
              /\ buckets' = done.rows
              /\ last' = [op |-> "new", name |-> name, settings |-> Some(settings),
                          ok |-> done.ok, panic |-> "",
                          bucket |-> IF done.ok THEN Some(bucket) ELSE None]
    /\ UNCHANGED <<impl, file, result, config, deleted, response, inflight, answered>>

\* Bucket::delete(self, db), whose body is empty, on a bucket find_all gave
BucketDelete(i) ==
    /\ Idle
    /\ IsSome(find_all(buckets))
    /\ i \in 1..Len(buckets)
    /\ last' = [op |-> "delete", name |-> Unwrap(find_all(buckets))[i].name,
                settings |-> None, ok |-> TRUE, panic |-> "", bucket |-> None]
    /\ deleted' = deleted \cup {Unwrap(find_all(buckets))[i].name}
    /\ UNCHANGED <<impl, file, result, config, buckets, issued, response,
                   inflight, answered>>

(***************************************************************************)
(* The HTTP server (src/lib.rs, src/routes)                                *)
(***************************************************************************)
Methods == {"GET", "POST", "PATCH", "DELETE"}

\* a request path as its segments; a trailing slash is a last empty segment
Paths ==
    {<< >>, <<"api">>, <<"api", "buckets">>, <<"api", "buckets", "">>,
     <<"api", "buckets", "a">>, <<"objects">>}

Peers == {"127.0.0.1", "10.0.0.7"}
Tokens == OptionOf({"token"})

\* the other settings of Config's public access_control fields
OtherAccessControl ==
    {[Config_default EXCEPT !.access_control =
          [enable_access_tokens |-> t, enable_local_host_auth_bypass |-> b]] :
        t \in BOOLEAN, b \in BOOLEAN} \ {Config_default}

RECURSIVE trim_trailing_slash(_)
\* NormalizePath::trim_trailing_slash
trim_trailing_slash(path) ==
    IF Len(path) > 0 /\ path[Len(path)] = ""
    THEN trim_trailing_slash(SubSeq(path, 1, Len(path) - 1))
    ELSE path

\* ClientBucket::from(Bucket), as serde serializes it
ClientBucket(bucket) ==
    [uuid |-> Uuid_to_string(bucket.uuid),
     name |-> bucket.name,
     settings |->
         [default_cache_policy |->
              IF IsSome(bucket.settings.default_cache_policy)
              THEN Some(CachePolicy_to_string(Unwrap(bucket.settings.default_cache_policy)))
              ELSE None,
          access_logging |-> bucket.settings.access_logging]]

\* a handler returned: the status and the JSON body
Responded(handler, status, body) ==
    [handler |-> handler, status |-> status, panic |-> "", body |-> body]

\* a handler panicked: the connection's task ends and no response is sent
Panicked(handler, message) ==
    [handler |-> handler, status |-> 0, panic |-> message, body |-> << >>]

\* get_buckets: Json(Bucket::find_all(&db).await.unwrap() mapped to ClientBucket)
get_buckets(rows) ==
    IF IsNone(find_all(rows))
    THEN Panicked("get_buckets", "Failed to parse")
    ELSE Responded("get_buckets", 200,
                   [i \in 1..Len(rows) |-> ClientBucket(Unwrap(find_all(rows))[i])])

\* the Router create_server builds: fallback, create_router ("/" and the
\* nested "/api"), create_api_router, create_buckets_router
route(method, path, rows) ==
    CASE path = << >> ->
             IF method = "GET"
             THEN Panicked("handle_index", "not yet implemented")
             ELSE Responded("", 405, << >>)
      [] path = <<"api">> ->
             IF method = "GET"
             THEN Responded("api_index", 200, << >>)
             ELSE Responded("", 405, << >>)
      [] path = <<"api", "buckets">> ->
             CASE method = "GET" -> get_buckets(rows)
               [] method = "POST" -> Panicked("post_buckets", "not yet implemented")
               [] OTHER -> Responded("", 405, << >>)
      [] Len(path) = 3 /\ SubSeq(path, 1, 2) = <<"api", "buckets">> ->
             CASE method = "GET" -> Panicked("get_bucket", "not yet implemented")
               [] method = "PATCH" -> Panicked("patch_bucket", "not yet implemented")
               [] method = "DELETE" -> Panicked("delete_bucket", "not yet implemented")
               [] OTHER -> Responded("", 405, << >>)
      [] OTHER -> Responded("fallback", 404, << >>)

\* the service create_server serves: NormalizePath around the Router with
\* its CORS and trace layers; nothing reads the peer address or a token
serve(method, path, peer, token, rows) == route(method, trim_trailing_slash(path), rows)

\* one request is served
Request(method, path, peer, token) ==
    /\ Idle
    /\ response' =
           LET r == serve(method, path, peer, token, buckets)
           IN [method |-> method, path |-> path, peer |-> peer, token |-> token,
               handler |-> r.handler, status |-> r.status, panic |-> r.panic,
               body |-> r.body]
    /\ last' = NoCall
    /\ UNCHANGED <<impl, file, result, config, buckets, issued, deleted,
                   inflight, answered>>

\* the caller has the result of the call, or the client the response
Complete ==
    /\ ~Idle
    /\ last' = NoCall
    /\ response' = NoRequest
    /\ UNCHANGED <<impl, file, result, config, buckets, issued, deleted,
                   inflight, answered>>

(***************************************************************************)
(* SpecServer: create_server(config) on an empty database, with            *)
(* Config::default() (main without a configuration file, and the test      *)
(* server) or another access_control; buckets are created and deleted      *)
(* through the Bucket model and requests are served                        *)
(***************************************************************************)
InitServer ==
    /\ impl = "main"
    /\ file \in ConfigFilesSetting({})
    /\ result = NotRun
    /\ \/ config = Config_default
       \/ config \in OtherAccessControl
    /\ buckets = << >>
    /\ issued = {}
    /\ deleted = {}
    /\ last = NoCall
    /\ response = NoRequest
    /\ inflight = << >>
    /\ answered = << >>

NextServer ==
    \/ \E name \in BucketNames, settings \in BucketSettings : BucketNew(name, settings)
    \/ \E i \in 1..MaxNew : BucketDelete(i)
    \/ \E method \in Methods, path \in Paths, peer \in Peers, token \in Tokens :
           Request(method, path, peer, token)
    \/ Complete

SpecServer == InitServer /\ [][NextServer]_vars

(***************************************************************************)
(* Properties of the catalog and of the server (checked under SpecServer)  *)
(***************************************************************************)
\* no two rows of the buckets table share a name or a uuid
UniqueRows ==
    \A i, j \in 1..Len(buckets) :
        i # j => buckets[i].name # buckets[j].name /\ buckets[i].uuid # buckets[j].uuid

\* a step of Bucket::new (each call draws a UUID), seen from outside: on a
\* stored name it fails and the table is unchanged; on a new name it
\* returns a bucket with the given name and settings and a UUID no stored
\* bucket has, and the table has grown by exactly that bucket
NewStep ==
    issued' # issued =>
        /\ last'.op = "new"
        /\ IF \E i \in 1..Len(buckets) : buckets[i].name = last'.name
           THEN /\ ~last'.ok
                /\ buckets' = buckets
           ELSE /\ last'.ok
                /\ Len(buckets') = Len(buckets) + 1
                /\ SubSeq(buckets', 1, Len(buckets)) = buckets
                /\ Unwrap(last'.bucket).name = last'.name
                /\ Unwrap(last'.bucket).settings = Unwrap(last'.settings)
                /\ \A i \in 1..Len(buckets) :
                       buckets[i].uuid # buckets'[Len(buckets')].uuid
                /\ Unwrap(find_all(buckets'))[Len(buckets')] = Unwrap(last'.bucket)

\* C7: after any sequence of Bucket::new calls no two stored buckets share
\* a name or a UUID; a call with a stored name fails and leaves the table
\* unchanged, a call with a new name adds exactly one bucket with a fresh
\* UUID, the given name and the given settings.
C7_CreateBucket == [](UniqueRows) /\ [][NewStep]_vars

\* C7 witness: with one bucket stored, a second Bucket::new with its name
\* has failed
C7_Witness ==
    /\ last.op = "new"
    /\ ~last.ok
    /\ Len(buckets) = 1
    /\ buckets[1].name = last.name

\* a list-buckets request: S3's ListBuckets (GET on the endpoint's root, as
\* the test sends it) or GET /api/buckets
IsListBuckets ==
    /\ response.method = "GET"
    /\ trim_trailing_slash(response.path) \in {<< >>, <<"api", "buckets">>}

\* the rows of the buckets created and not deleted, in creation order
LiveRows == SelectSeq(buckets, LAMBDA row : row.name \notin deleted)

\* C8: a list-buckets request succeeds and returns exactly the buckets
\* created and not deleted, each once and in creation order; on a new
\* server it returns zero buckets.
C8_ListBuckets ==
    IsListBuckets =>
        /\ response.status = 200
        /\ Len(response.body) = Len(LiveRows)
        /\ \A i \in 1..Len(LiveRows) :
               /\ response.body[i].name = LiveRows[i].name
               /\ response.body[i].uuid = LiveRows[i].uuid

\* the request is for a bucket operation the router serves
IsBucketOperation ==
    LET path == trim_trailing_slash(response.path)
    IN \/ path = <<"api", "buckets">> /\ response.method \in {"GET", "POST"}
       \/ /\ Len(path) = 3
          /\ SubSeq(path, 1, 2) = <<"api", "buckets">>
          /\ response.method \in {"GET", "PATCH", "DELETE"}

\* the token check applies: tokens are required and the request is not a
\* loopback request under an enabled bypass
TokenRequired ==
    /\ config.access_control.enable_access_tokens
    /\ ~(/\ config.access_control.enable_local_host_auth_bypass
         /\ response.peer = "127.0.0.1")

\* C9: when tokens are required, a request without a valid token is
\* rejected with Unauthorized (401) before any bucket operation runs,
\* unless the bypass is enabled and the request comes from loopback.
C9_Unauthorized ==
    IsBucketOperation /\ TokenRequired /\ IsNone(response.token) =>
        /\ response.status = 401
        /\ response.handler = ""

\* C10: after delete on an existing bucket the bucket is gone: no row has
\* its name and a listing no longer contains it; a DELETE request for a
\* name that is not stored is answered NotFound (404).
C10_DeleteRemoves ==
    /\ last.op = "delete" =>
           /\ \A i \in 1..Len(buckets) : buckets[i].name # last.name
           /\ \A i \in 1..Len(get_buckets(buckets).body) :
                  get_buckets(buckets).body[i].name # last.name
    /\ /\ response.method = "DELETE"
       /\ Len(trim_trailing_slash(response.path)) = 3
       /\ SubSeq(trim_trailing_slash(response.path), 1, 2) = <<"api", "buckets">>
       /\ \A i \in 1..Len(buckets) :
              buckets[i].name # trim_trailing_slash(response.path)[3]
       => response.status = 404

(***************************************************************************)
(* Concurrent requests: axum::serve accepts connections and tokio runs     *)
(* each request on a task of its own, so accepted requests are answered    *)
(* in any order (src/lib.rs)                                               *)
(***************************************************************************)
\* how many requests the server accepts in all
MaxRequests == 4

\* default_burst_size of a configured rate_limiting section
BurstSizes == {1, 2}

\* the settings of Config's public policy fields: Config::default(), one
\* with tokens not required, and one for each optional policy section set
PolicyConfigs ==
    {Config_default,
     [Config_default EXCEPT !.access_control.enable_access_tokens = FALSE],
     [Config_default EXCEPT
          !.ip_filter = Some([kind |-> "Blacklist", set |-> CidrStrings])],
     [Config_default EXCEPT
          !.content_types = Some([kind |-> "Blacklist", set |-> MimeStrings])]}
    \cup {[Config_default EXCEPT
               !.rate_limiting =
                   Some([default_period |-> 60, default_burst_size |-> n])] :
              n \in BurstSizes}

\* the database create_server opens: a new one, or one in which an earlier
\* Bucket::new stored bucket "a" with one of the default cache policies
StoredTables ==
    {<< >>} \cup
    {<<RowOf([uuid |-> 1, name |-> "a",
              settings |-> [default_cache_policy |-> policy,
                            access_logging |-> FALSE]])>> :
        policy \in OptionOf({"Cache", "NoCache"})}

\* the requests clients send: GET /api/buckets from each peer with and
\* without a token, and from one peer with a token the object operations
\* under bucket "a" (PUT of the same bytes under keys k1 and k2, the second
\* with a cache policy override; GET and DELETE)
ListRequests ==
    {[method |-> "GET", path |-> <<"api", "buckets">>, peer |-> peer,
      token |-> token, content_type |-> None, cache_policy |-> None,
      payload |-> None] : peer \in Peers, token \in Tokens}

ObjectRequests ==
    {[method |-> "PUT", path |-> <<"api", "buckets", "a", "objects", "k1">>,
      peer |-> "10.0.0.7", token |-> Some("token"),
      content_type |-> Some("text/plain"), cache_policy |-> None,
      payload |-> Some("bytes")],
     [method |-> "PUT", path |-> <<"api", "buckets", "a", "objects", "k2">>,
      peer |-> "10.0.0.7", token |-> Some("token"),
      content_type |-> Some("text/plain"), cache_policy |-> Some("NoCache"),
      payload |-> Some("bytes")]}
    \cup
    {[method |-> method, path |-> <<"api", "buckets", "a", "objects", key>>,
      peer |-> "10.0.0.7", token |-> Some("token"), content_type |-> None,
      cache_policy |-> None, payload |-> None] :
        method \in {"GET", "DELETE"}, key \in {"k1", "k2"}}

Requests == ListRequests \cup ObjectRequests

\* a connection is accepted and its request waits on a task of its own
Accept(request) ==
    /\ Len(inflight) + Len(answered) < MaxRequests
    /\ inflight' = Append(inflight, request)
    /\ UNCHANGED <<impl, file, result, config, buckets, issued, deleted, last,
                   response, answered>>

\* the task of the i-th waiting request runs: the request goes through the
\* service and its response is sent
Serve(i) ==
    /\ i \in 1..Len(inflight)
    /\ LET request == inflight[i]
           r == serve(request.method, request.path, request.peer, request.token,
                      buckets)
       IN answered' =
              Append(answered,
                     [method |-> request.method, path |-> request.path,
                      peer |-> request.peer, token |-> request.token,
                      content_type |-> request.content_type,
                      cache_policy |-> request.cache_policy,
                      payload |-> request.payload,
                      handler |-> r.handler, status |-> r.status,
                      panic |-> r.panic, body |-> r.body])
    /\ inflight' = [j \in 1..(Len(inflight) - 1) |->
                        IF j < i THEN inflight[j] ELSE inflight[j + 1]]
    /\ UNCHANGED <<impl, file, result, config, buckets, issued, deleted, last,
                   response>>

(***************************************************************************)
(* SpecConcurrent: create_server(config) with one of the policy            *)
(* configurations, serving concurrent requests                             *)
(***************************************************************************)
InitConcurrent ==
    /\ impl = "main"
    /\ file \in ConfigFilesSetting({})
    /\ result = NotRun
    /\ config \in PolicyConfigs
    /\ buckets \in StoredTables
    /\ issued = {Uuid_parse(buckets[i].uuid)[1] : i \in 1..Len(buckets)}
    /\ deleted = {}
    /\ last = NoCall
    /\ response = NoRequest
    /\ inflight = << >>
    /\ answered = << >>

NextConcurrent ==
    \/ \E request \in Requests : Accept(request)
    \/ \E i \in 1..MaxRequests : Serve(i)

SpecConcurrent == InitConcurrent /\ [][NextConcurrent]_vars

(***************************************************************************)
(* Properties of the object operations and of the policy filters (checked  *)
(* under SpecConcurrent)                                                   *)
(***************************************************************************)
\* the request is an object operation under a bucket
IsObjectRequest(a) ==
    /\ Len(a.path) = 5
    /\ SubSeq(a.path, 1, 2) = <<"api", "buckets">>
    /\ a.path[4] = "objects"

\* the bucket the object operation names is stored
BucketStored(a) == \E i \in 1..Len(buckets) : buckets[i].name = a.path[3]

\* a and b name the same object
SameObject(a, b) == a.path[3] = b.path[3] /\ a.path[5] = b.path[5]

\* a DELETE of a's object has been accepted (answered or still waiting)
DeleteAccepted(a) ==
    \/ \E j \in 1..Len(answered) :
           /\ IsObjectRequest(answered[j])
           /\ answered[j].method = "DELETE"
           /\ SameObject(answered[j], a)
    \/ \E j \in 1..Len(inflight) :
           /\ IsObjectRequest(inflight[j])
           /\ inflight[j].method = "DELETE"
           /\ SameObject(inflight[j], a)

\* the PUTs answered before the i-th response
PutsBefore(i) ==
    {j \in 1..(i - 1) : IsObjectRequest(answered[j]) /\ answered[j].method = "PUT"}

\* no policy section is set and tokens are not asked for: every filter passes
NoPolicy ==
    /\ ~config.access_control.enable_access_tokens
    /\ IsNone(config.ip_filter)
    /\ IsNone(config.content_types)
    /\ IsNone(config.rate_limiting)

\* the response carries the object: status 200 and one body element
Found(a) == a.status = 200 /\ Len(a.body) = 1

\* C11: identical payloads stored under different keys share one blob that
\* stays retrievable while an object references it: a put_object into a
\* stored bucket succeeds, and once the same bytes are stored under two
\* keys, a get_object of one of them whose delete was never accepted
\* returns those bytes, whether or not the other object was deleted.
C11_SharedBlob ==
    NoPolicy =>
        \A i \in 1..Len(answered) :
            LET a == answered[i]
            IN /\ IsObjectRequest(a) /\ a.method = "PUT" /\ BucketStored(a) =>
                      a.status = 200
               /\ /\ IsObjectRequest(a)
                  /\ a.method = "GET"
                  /\ ~DeleteAccepted(a)
                  /\ \E j, k \in PutsBefore(i) :
                         /\ SameObject(answered[j], a)
                         /\ ~SameObject(answered[k], a)
                         /\ answered[k].payload = answered[j].payload
                  => /\ Found(a)
                     /\ \E j \in PutsBefore(i) :
                            /\ SameObject(answered[j], a)
                            /\ Some(a.body[1].bytes) = answered[j].payload

\* the settings of the stored bucket of the given name
SettingsOf(name) ==
    LET i == CHOOSE i \in 1..Len(buckets) : buckets[i].name = name
    IN Unwrap(FromRow(buckets[i])).settings

\* the resolution order: the object's override, else the bucket's default,
\* else the global default
Resolved(override, bucket_default, global_default) ==
    IF IsSome(override) THEN Unwrap(override)
    ELSE IF IsSome(bucket_default) THEN Unwrap(bucket_default)
    ELSE global_default

\* C12: get_object reports as the object's effective cache policy the
\* override it was put with, else its bucket's default_cache_policy, else
\* the global default policy.
C12_EffectivePolicy ==
    NoPolicy =>
        \A i \in 1..Len(answered) :
            LET a == answered[i]
            IN /\ IsObjectRequest(a)
               /\ a.method = "GET"
               /\ BucketStored(a)
               /\ ~DeleteAccepted(a)
               /\ \E j \in PutsBefore(i) : SameObject(answered[j], a)
               => /\ Found(a)
                  /\ \E j \in PutsBefore(i) :
                         /\ SameObject(answered[j], a)
                         /\ a.body[1].cache_policy =
                                Resolved(answered[j].cache_policy,
                                         SettingsOf(a.path[3]).default_cache_policy,
                                         Unwrap(CachePolicy_parse(
                                             config.cache_control.default_policy)))

\* the responses sent to the peer, and those the rate limiter turned away
AnsweredTo(peer) == {i \in 1..Len(answered) : answered[i].peer = peer}
TooManyRequests(peer) == {i \in AnsweredTo(peer) : answered[i].status = 429}

\* C13: with rate limiting configured with burst size N, of the requests of
\* one caller within a refill period never more than N are admitted,
\* however the requests interleave, and of N+1 requests exactly one is
\* rejected with TooManyRequests (429).
C13_BurstAdmits ==
    IsSome(config.rate_limiting) =>
        \A peer \in Peers :
            LET N == Unwrap(config.rate_limiting).default_burst_size
                admitted == AnsweredTo(peer) \ TooManyRequests(peer)
            IN /\ Cardinality(admitted) <= N
               /\ Cardinality(AnsweredTo(peer)) = N + 1 =>
                      Cardinality(TooManyRequests(peer)) = 1

\* the address is in the CIDR block
InCidr(peer, block) == block = "10.0.0.0/8" /\ peer = "10.0.0.7"

\* the configured list excludes the value
Excluded(filter, hit) ==
    /\ IsSome(filter)
    /\ IF Unwrap(filter).kind = "Blacklist" THEN hit ELSE ~hit

IpExcluded(a) ==
    Excluded(config.ip_filter,
             IsSome(config.ip_filter) /\
                 \E block \in Unwrap(config.ip_filter).set : InCidr(a.peer, block))

TokenMissing(a) ==
    /\ config.access_control.enable_access_tokens
    /\ ~(/\ config.access_control.enable_local_host_auth_bypass
         /\ a.peer = "127.0.0.1")
    /\ IsNone(a.token)

TypeExcluded(a) ==
    /\ a.method \in {"PUT", "POST", "PATCH"}
    /\ IsSome(a.content_type)
    /\ Excluded(config.content_types,
                IsSome(config.content_types) /\
                    Unwrap(a.content_type) \in Unwrap(config.content_types).set)

\* the request was turned away and no handler ran
Rejected_with(a, status) == a.status = status /\ a.handler = ""

\* C14: every request passes the IP filter, the rate limiter, the token
\* check and the content-type filter in this order before a handler runs:
\* the first filter that rejects gives the response (403, 429, 401, 415)
\* and no handler runs; a filter whose section is absent rejects nothing.
C14_FilterOrder ==
    \A i \in 1..Len(answered) :
        LET a == answered[i]
        IN /\ IpExcluded(a) => Rejected_with(a, 403)
           /\ ~IpExcluded(a) /\ a.status # 429 /\ TokenMissing(a) =>
                  Rejected_with(a, 401)
           /\ ~IpExcluded(a) /\ a.status # 429 /\ ~TokenMissing(a) /\ TypeExcluded(a) =>
                  Rejected_with(a, 415)
           /\ IsNone(config.ip_filter) => a.status # 403
           /\ IsNone(config.rate_limiting) => a.status # 429
           /\ IsNone(config.content_types) => a.status # 415

\* the other objects put with the same bytes as the j-th answered request
\* whose DELETE has been accepted: their release of the shared blob runs
\* before, after or together with the puts
ReleasedSharers(j) ==
    {k \in 1..Len(answered) :
        /\ IsObjectRequest(answered[k])
        /\ answered[k].method = "PUT"
        /\ ~SameObject(answered[k], answered[j])
        /\ answered[k].payload = answered[j].payload
        /\ DeleteAccepted(answered[k])}

\* C15: however a put and a release of the same bytes interleave, an object
\* that was put and whose delete was never accepted references a blob that
\* is not erased: get_object returns the complete payload.
C15_ReferencedBlobReadable ==
    NoPolicy =>
        \A i \in 1..Len(answered) :
            LET a == answered[i]
            IN /\ IsObjectRequest(a)
               /\ a.method = "GET"
               /\ BucketStored(a)
               /\ ~DeleteAccepted(a)
               /\ \E j \in PutsBefore(i) :
                      SameObject(answered[j], a) /\ ReleasedSharers(j) # {}
               => /\ Found(a)
                  /\ \E j \in PutsBefore(i) :
                         /\ SameObject(answered[j], a)
                         /\ Some(a.body[1].bytes) = answered[j].payload

(***************************************************************************)
(* SpecExisting: create_server(Config::default()) on a database file that  *)
(* exists already; its buckets table holds whatever was written to it (the *)
(* uuid and settings.default_cache_policy columns are TEXT)                *)
(***************************************************************************)
\* the text in the uuid column: a UUID, or not one
StoredUuids == {UuidText[5], "not-a-uuid"}

\* the settings.default_cache_policy column: NULL, a policy as strum writes
\* it, or other text
StoredPolicies == OptionOf({"cache", "no-cache", "NoCache"})

ExistingRows ==
    [uuid : StoredUuids, name : {"a"},
     settings_default_cache_policy : StoredPolicies,
     settings_access_logging : {0, 1}]

ExistingTables == {<< >>} \cup {<<row>> : row \in ExistingRows}

\* Bucket::find_all(db) is called: it returns the buckets, or a row makes
\* From<Row> panic inside it
BucketFindAll ==
    /\ Idle
    /\ last' = [op |-> "find_all", name |-> "", settings |-> None,
                ok |-> IsSome(find_all(buckets)),
                panic |-> IF IsSome(find_all(buckets)) THEN "" ELSE "Failed to parse",
                bucket |-> None]
    /\ UNCHANGED <<impl, file, result, config, buckets, issued, deleted, response,
                   inflight, answered>>

InitExisting ==
    /\ impl = "main"
    /\ file \in ConfigFilesSetting({})
    /\ result = NotRun
    /\ config = Config_default
    /\ buckets \in ExistingTables
    /\ issued = {}
    /\ deleted = {}
    /\ last = NoCall
    /\ response = NoRequest
    /\ inflight = << >>
    /\ answered = << >>

NextExisting ==
    \/ BucketFindAll
    \/ \E method \in Methods, path \in Paths, peer \in Peers, token \in Tokens :
           Request(method, path, peer, token)
    \/ Complete

SpecExisting == InitExisting /\ [][NextExisting]_vars

\* a stored row is malformed: its uuid is not a UUID, or its default cache
\* policy is text other than "cache" and "no-cache"
Malformed(row) ==
    \/ row.uuid \notin {UuidText[u] : u \in 1..Len(UuidText)}
    \/ /\ IsSome(row.settings_default_cache_policy)
       /\ Unwrap(row.settings_default_cache_policy) \notin {"cache", "no-cache"}

\* C16: with a malformed row in the buckets table, find_all returns an
\* error value (it does not panic) and the get_buckets handler is not
\* aborted: the request gets a response.
C16_TypedError ==
    (\E i \in 1..Len(buckets) : Malformed(buckets[i])) =>
        /\ last.op = "find_all" => ~last.ok /\ last.panic = ""
        /\ /\ response.method = "GET"
           /\ trim_trailing_slash(response.path) = <<"api", "buckets">>
           => response.panic = "" /\ response.status # 0

(***************************************************************************)
(* Round trip through the buckets table (checked under SpecServer)         *)
(***************************************************************************)
\* C17: the bucket find_all returns for a bucket Bucket::new has just
\* stored has the same uuid, name, default_cache_policy and access_logging
\* as the bucket Bucket::new returned, for every name and settings value.
C17_RoundTrip ==
    last.op = "new" /\ last.ok =>
        /\ IsSome(find_all(buckets))
        /\ \E i \in 1..Len(buckets) :
               /\ buckets[i].name = last.name
               /\ Unwrap(find_all(buckets))[i] = Unwrap(last.bucket)
               /\ Unwrap(find_all(buckets))[i].name = last.name
               /\ Unwrap(find_all(buckets))[i].settings = Unwrap(last.settings)

\* C17 witness: a second bucket was stored with default cache policy
\* NoCache and access logging on, and find_all returns both buckets
C17_Witness ==
    /\ last.op = "new"
    /\ last.ok
    /\ Len(buckets) = 2
    /\ Unwrap(last.settings) =
           [default_cache_policy |-> Some("NoCache"), access_logging |-> TRUE]
    /\ IsSome(find_all(buckets))
    /\ Unwrap(find_all(buckets))[2] = Unwrap(last.bucket)

====
